---- MODULE Spec2Model ----
(***************************************************************************)
(* Model of the lending core of core_utils/lending.py:                     *)
(*   - the paginated query engine (get_items_by_query_from_dynamo,         *)
(*     recursive_query, validate_response_dynamo_query),                   *)
(*   - the loan-access resolver (validate_access) with its three lookups   *)
(*     (find_loan_by_client, find_offer_by_client, find_status_by_id).     *)
(* Python's None is modelled per type: a string sentinel for string        *)
(* fields, a numeric sentinel for integer codes, a flag for containers.    *)
(***************************************************************************)
EXTENDS Integers, Sequences, FiniteSets, TLC

VARIABLES
    qpc,        \* query engine caller: "ready" | "returned"
    qtable,     \* pages the store serves for the query, in token order
    qres,       \* outcome of get_items_by_query_from_dynamo
    pc,         \* resolver position: "idle" | "loans" | "offer" | "status" | "done"
    client_id,  \* validate_access argument
    customer_id,\* validate_access argument
    loans,      \* value returned by find_loan_by_client
    offer,      \* value returned by find_offer_by_client
    catalog,    \* contents of the StatusPreaproved table
    status,     \* value returned by find_status_by_id
    status_key, \* key passed to find_status_by_id (NoCode before the call)
    calls,      \* store calls issued by validate_access, in order
    stepA,      \* response as it stood at the end of Section 1
    response,   \* the response dict of validate_access
    exc,        \* exception met by validate_access: "" | "caught" | "escaped"
    wpc,        \* store writers: "off" | "run"
    wrecord,    \* the item stored under the key that update_item addresses
    wrows,      \* items that put_item has stored
    wclock,     \* datetime.now(), in seconds
    wops,       \* number of write operations made so far
    wlast,      \* the last write operation: arguments, store outcome, return value
    wprev,      \* the successful update that directly preceded the last operation
    rpc,        \* per compare_client_data call: "idle" | "profile" | "find" | "update" | "audit"
                \*                               | "done" | "raised"
    rarg,       \* per call: its arguments data, is_msisdn, process
    rcell,      \* per call: the local cell_number
    ridmts,     \* per call: the local idmts
    rread,      \* per call: what find_by_client_by_idmts returned
    rinfo,      \* per call: the info_response dict
    rexc,       \* per call: exception met: "" | "caught" | "escaped"
    cstore,     \* the Client row of the external id, as stored
    audit,      \* the rows of UpdatedCustomerAccounts, in append order
    rwrites     \* the writes the store has answered, in order

qvars == <<qpc, qtable, qres>>
avars == <<pc, client_id, customer_id, loans, offer, catalog, status, status_key, calls,
           stepA, response, exc>>
wvars == <<wpc, wrecord, wrows, wclock, wops, wlast, wprev>>
vars == <<qpc, qtable, qres, pc, client_id, customer_id, loans, offer, catalog, status,
          status_key, calls, stepA, response, exc,
          wpc, wrecord, wrows, wclock, wops, wlast, wprev,
          rpc, rarg, rcell, ridmts, rread, rinfo, rexc, cstore, audit, rwrites>>
rvars == <<rpc, rarg, rcell, ridmts, rread, rinfo, rexc, cstore, audit, rwrites>>
nonquery == <<avars, wvars, rvars>>
nonaccess == <<qvars, wvars, rvars>>
nonwrites == <<qvars, avars, rvars>>
nonrecon == <<qvars, avars, wvars>>

----------------------------------------------------------------------------
(* Bounds *)
MaxPages == 3
MaxPageRows == 2
MaxLoans == 3
MaxClock == 1
MaxOps == 2

(* Sentinels *)
None == "None"          \* None where a string is expected
NoKey == 0              \* response without 'LastEvaluatedKey' / query without 'ExclusiveStartKey'
HTTP_OK == 200
HTTP_ERROR == 500
NoCode == -1            \* offer without 'StatusPreapproved'
NoLoan == [LoanID |-> 0, Status |-> None]       \* current_loan is None
NoItem == [Message |-> FALSE, StatusPreapproved |-> NoCode, statusApp |-> None]
NoStatus == [Description |-> None]

----------------------------------------------------------------------------
(* The store's side of table.query: page k+1 follows the page whose        *)
(* LastEvaluatedKey is k; the last page carries no LastEvaluatedKey.       *)
TableQuery(table, query) ==
    LET index == IF query.ExclusiveStartKey = NoKey THEN 1 ELSE query.ExclusiveStartKey + 1
    IN  [raises |-> table[index].raises,
         HTTPStatusCode |-> table[index].code,
         Items |-> table[index].Items,
         LastEvaluatedKey |-> IF index < Len(table) THEN index ELSE NoKey]

(* Variant of validate_response_dynamo_query that accepts empty data even  *)
(* when valid_empty is False.                                              *)
validate_response_accepting_empty(resp, complete, valid_empty) ==
    IF resp.HTTPStatusCode /= HTTP_OK \/ ~resp.present
    THEN [none |-> TRUE, data |-> <<>>]
    ELSE [none |-> FALSE, data |-> resp.data]

(* validate_response_dynamo_query: None unless status 200, the data key is *)
(* present and (when valid_empty is False) the data is non-empty.          *)
validate_response_dynamo_query(resp, complete, valid_empty) ==
    IF resp.HTTPStatusCode /= HTTP_OK \/ ~resp.present
          \/ (valid_empty = FALSE /\ Len(resp.data) = 0)
    THEN [none |-> TRUE, data |-> <<>>]
    ELSE IF complete = TRUE
         THEN [none |-> FALSE, data |-> resp.data]
         ELSE [none |-> FALSE, data |-> <<resp.data[1]>>]

(* Variant of recursive_query that puts each page's Items in front of the  *)
(* rows fetched so far.                                                    *)
RECURSIVE recursive_query_prepending(_, _, _, _, _)
recursive_query_prepending(table, query, resp, rows, issued) ==
    IF resp.HTTPStatusCode /= HTTP_OK
    THEN [raised |-> TRUE, rows |-> rows, issued |-> issued]
    ELSE LET rows2 == resp.Items \o rows
         IN  IF resp.LastEvaluatedKey /= NoKey
             THEN LET query2 == [query EXCEPT !.ExclusiveStartKey = resp.LastEvaluatedKey]
                      table_scan == TableQuery(table, query2)
                      issued2 == Append(issued, query2.ExclusiveStartKey)
                  IN  IF table_scan.raises
                      THEN [raised |-> TRUE, rows |-> rows2, issued |-> issued2]
                      ELSE recursive_query_prepending(table, query2, table_scan, rows2, issued2)
             ELSE [raised |-> FALSE, rows |-> rows2, issued |-> issued]

(* Variant of recursive_query that stops at a page without rows even when *)
(* the page carries a LastEvaluatedKey.                                    *)
RECURSIVE recursive_query_stopping_on_empty(_, _, _, _, _)
recursive_query_stopping_on_empty(table, query, resp, rows, issued) ==
    IF resp.HTTPStatusCode /= HTTP_OK
    THEN [raised |-> TRUE, rows |-> rows, issued |-> issued]
    ELSE LET rows2 == IF resp.Items /= <<>> THEN rows \o resp.Items ELSE rows
         IN  IF resp.LastEvaluatedKey /= NoKey /\ resp.Items /= <<>>
             THEN LET query2 == [query EXCEPT !.ExclusiveStartKey = resp.LastEvaluatedKey]
                      table_scan == TableQuery(table, query2)
                      issued2 == Append(issued, query2.ExclusiveStartKey)
                  IN  IF table_scan.raises
                      THEN [raised |-> TRUE, rows |-> rows2, issued |-> issued2]
                      ELSE recursive_query_stopping_on_empty(table, query2, table_scan,
                                                             rows2, issued2)
             ELSE [raised |-> FALSE, rows |-> rows2, issued |-> issued]

(* recursive_query: raise on a non-200 page, extend rows with the page's   *)
(* Items, follow LastEvaluatedKey. issued logs every ExclusiveStartKey     *)
(* the loop put into the query.                                            *)
RECURSIVE recursive_query(_, _, _, _, _)
recursive_query(table, query, resp, rows, issued) ==
    IF resp.HTTPStatusCode /= HTTP_OK
    THEN [raised |-> TRUE, rows |-> rows, issued |-> issued]
    ELSE LET rows2 == IF resp.Items /= <<>> THEN rows \o resp.Items ELSE rows
         IN  IF resp.LastEvaluatedKey /= NoKey
             THEN LET query2 == [query EXCEPT !.ExclusiveStartKey = resp.LastEvaluatedKey]
                      table_scan == TableQuery(table, query2)
                      issued2 == Append(issued, query2.ExclusiveStartKey)
                  IN  IF table_scan.raises
                      THEN [raised |-> TRUE, rows |-> rows2, issued |-> issued2]
                      ELSE recursive_query(table, query2, table_scan, rows2, issued2)
             ELSE [raised |-> FALSE, rows |-> rows2, issued |-> issued]

(* Variant of get_items_by_query_from_dynamo that swallows the exception   *)
(* and hands back the rows fetched before it.                              *)
get_items_returning_partial(table) ==
    LET query == [ExclusiveStartKey |-> NoKey]
        first == TableQuery(table, query)
        r == IF first.raises
             THEN [raised |-> TRUE, rows |-> <<>>, issued |-> <<>>]
             ELSE recursive_query(table, query, first, <<>>, <<>>)
        validated == validate_response_dynamo_query(
                        [HTTPStatusCode |-> HTTP_OK, present |-> TRUE, data |-> r.rows],
                        TRUE, FALSE)
    IN  [raised |-> FALSE, none |-> validated.none, rows |-> validated.data,
         issued |-> r.issued]

(* get_items_by_query_from_dynamo: any exception of the first query or of  *)
(* the loop is re-raised as LendingException; otherwise the accumulated    *)
(* rows go through validate_response_dynamo_query(.., True).               *)
get_items_by_query_from_dynamo(table) ==
    LET query == [ExclusiveStartKey |-> NoKey]
        first == TableQuery(table, query)
        r == IF first.raises
             THEN [raised |-> TRUE, rows |-> <<>>, issued |-> <<>>]
             ELSE recursive_query(table, query, first, <<>>, <<>>)
        validated == validate_response_dynamo_query(
                        [HTTPStatusCode |-> HTTP_OK, present |-> TRUE, data |-> r.rows],
                        TRUE, FALSE)
    IN  IF r.raised
        THEN [raised |-> TRUE, none |-> TRUE, rows |-> <<>>, issued |-> r.issued]
        ELSE [raised |-> FALSE, none |-> validated.none, rows |-> validated.data,
              issued |-> r.issued]

----------------------------------------------------------------------------
(* Tables served to the query engine.  A shape gives, per page, the number *)
(* of rows, the HTTP status and whether table.query raises; rows are       *)
(* numbered in store order.                                                *)
RowsOf(sts, from, n) == [i \in 1..n |-> [LoanID |-> from + i, Status |-> sts[from + i]]]

RECURSIVE BuildPages(_, _, _)
BuildPages(sts, shape, from) ==
    IF shape = <<>> THEN <<>>
    ELSE <<[code |-> Head(shape).code, raises |-> Head(shape).raises,
            Items |-> RowsOf(sts, from, Head(shape).n)]>>
         \o BuildPages(sts, Tail(shape), from + Head(shape).n)

PageShapes == [n : 0..MaxPageRows, code : {HTTP_OK, HTTP_ERROR}, raises : BOOLEAN]
Shapes == UNION {[1..k -> PageShapes] : k \in 1..MaxPages}
QueryTables == {BuildPages([i \in 1..(MaxPages * MaxPageRows) |-> "ACTIVE"], shape, 0) :
                    shape \in Shapes}

RECURSIVE ConcatItems(_)
ConcatItems(table) == IF table = <<>> THEN <<>> ELSE Head(table).Items \o ConcatItems(Tail(table))

----------------------------------------------------------------------------
(* The components that a specification leaves out stay as set here. *)
QueryOff ==
    /\ qpc = "off"
    /\ qtable = <<>>
    /\ qres = [raised |-> FALSE, none |-> TRUE, rows |-> <<>>, issued |-> <<>>]

AccessOff ==
    /\ pc = "off" /\ client_id = None /\ customer_id = None
    /\ loans = [none |-> TRUE, rows |-> <<>>]
    /\ offer = [none |-> TRUE, Item |-> NoItem]
    /\ catalog = <<>>
    /\ status = [none |-> TRUE, Item |-> NoStatus]
    /\ status_key = NoCode
    /\ calls = <<>>
    /\ stepA = <<>>
    /\ response = <<>>
    /\ exc = ""

WritesOff ==
    /\ wpc = "off"
    /\ wrecord = <<>>
    /\ wrows = {}
    /\ wclock = 0
    /\ wops = 0
    /\ wlast = <<>>
    /\ wprev = <<>>

(* The calls of compare_client_data that run side by side. *)
Calls == {"A", "B"}

ReconOff ==
    /\ rpc = [p \in Calls |-> "off"]
    /\ rarg = <<>>
    /\ rcell = <<>>
    /\ ridmts = <<>>
    /\ rread = <<>>
    /\ rinfo = <<>>
    /\ rexc = <<>>
    /\ cstore = <<>>
    /\ audit = <<>>
    /\ rwrites = <<>>

(* Query engine, one call per behaviour.                                   *)
InitQuery ==
    /\ qpc = "ready"
    /\ qtable \in QueryTables
    /\ qres = [raised |-> FALSE, none |-> TRUE, rows |-> <<>>, issued |-> <<>>]
    /\ AccessOff
    /\ WritesOff
    /\ ReconOff

Query ==
    /\ qpc = "ready"
    /\ qres' = get_items_by_query_from_dynamo(qtable)
    /\ qpc' = "returned"
    /\ UNCHANGED <<qtable>>
    /\ UNCHANGED nonquery

NextQuery == Query

SpecQuery == InitQuery /\ [][NextQuery]_vars

----------------------------------------------------------------------------
(* Properties of the query engine (checked under SpecQuery).               *)
PageOk(page) == ~page.raises /\ page.code = HTTP_OK
AllPagesOk == \A i \in 1..Len(qtable) : PageOk(qtable[i])
SomePageFails == \E i \in 1..Len(qtable) : ~PageOk(qtable[i])
TokensOf(table) == [i \in 1..(Len(table) - 1) |-> i]

\* C8 (as stated): for every chain of successful pages the engine returns
\* exactly the concatenation of the pages' rows, in page-then-row order,
\* having re-issued the query once per continuation token.
C8_ConcatAlways ==
    (qpc = "returned" /\ AllPagesOk) =>
        /\ ~qres.raised
        /\ qres.issued = TokensOf(qtable)
        /\ ~qres.none
        /\ qres.rows = ConcatItems(qtable)

\* C8 (amended): for every chain of successful pages the engine re-issues the
\* query once per continuation token, in order, and returns the concatenation
\* of the pages' rows in page-then-row order when there is at least one row;
\* when the pages hold no row at all it returns None.
C8_ConcatWhenNonEmpty ==
    (qpc = "returned" /\ AllPagesOk) =>
        /\ ~qres.raised
        /\ qres.issued = TokensOf(qtable)
        /\ IF ConcatItems(qtable) = <<>>
           THEN qres.none
           ELSE ~qres.none /\ qres.rows = ConcatItems(qtable)

C8_Witness ==
    /\ qpc = "returned"
    /\ AllPagesOk
    /\ Len(qtable) = 3
    /\ Len(qtable[1].Items) = 2 /\ Len(qtable[2].Items) = 2 /\ Len(qtable[3].Items) = 1
    /\ ~qres.none
    /\ Len(qres.rows) = 5
    /\ \A i \in 1..5 : qres.rows[i].LoanID = i

\* C9 (as stated): a successful, empty first page with no further rows makes
\* the engine return an empty sequence: no error and no None.
C9_EmptyIsEmptySequence ==
    (qpc = "returned" /\ AllPagesOk /\ ConcatItems(qtable) = <<>>) =>
        ~qres.raised /\ ~qres.none /\ qres.rows = <<>>

\* C9 (amended): a successful, empty first page with no further rows makes
\* the engine return None without raising; an error is always an exception.
C9_EmptyIsNone ==
    (qpc = "returned" /\ AllPagesOk /\ ConcatItems(qtable) = <<>>) =>
        ~qres.raised /\ qres.none

C9_Witness ==
    /\ qpc = "returned"
    /\ Len(qtable) = 1
    /\ PageOk(qtable[1])
    /\ qtable[1].Items = <<>>
    /\ ~qres.raised /\ qres.none

EmptyPageThenRows ==
    \E i \in 1..(Len(qtable) - 1) :
        /\ qtable[i].Items = <<>>
        /\ \E k \in (i + 1)..Len(qtable) : qtable[k].Items /= <<>>

\* C28: the pagination loop goes on exactly while a page carries a
\* continuation token, whatever the page holds: a successful page with zero
\* rows and a token does not stop the query, every later page is fetched and
\* its rows are in the result.
C28_TokenAloneDrivesLoop ==
    (qpc = "returned" /\ AllPagesOk /\ EmptyPageThenRows) =>
        /\ ~qres.raised
        /\ Len(qres.issued) = Len(qtable) - 1
        /\ \A i \in 1..Len(qres.issued) : qres.issued[i] = i
        /\ ~qres.none
        /\ Len(qres.rows) = Len(ConcatItems(qtable))
        /\ \A k \in 1..Len(qtable) : \A r \in 1..Len(qtable[k].Items) :
              \E n \in 1..Len(qres.rows) : qres.rows[n] = qtable[k].Items[r]

C28_Witness ==
    /\ qpc = "returned"
    /\ AllPagesOk
    /\ Len(qtable) = 3
    /\ qtable[1].Items /= <<>>
    /\ qtable[2].Items = <<>>
    /\ Len(qtable[3].Items) = 2
    /\ Len(qres.issued) = 2
    /\ qres.rows = qtable[1].Items \o qtable[3].Items

----------------------------------------------------------------------------
(* The loan-access resolver.                                               *)
_OFFER_NOT_FOUND == "Offer not found"
_STATUS_PREPPROVED_NOT_FOUND == "Status preapproved not found"
dashboard == "dashboard"
(* Variant of on_boarding that names the dashboard flow. *)
on_boarding_as_dashboard == "dashboard"

on_boarding == "onboarding"

(* Variant of the initial response dict that starts with access granted. *)
DefaultResponse_with_access ==
    [success |-> FALSE, error |-> "", status_preapproved |-> 0, flow |-> "dashboard",
     current_loan |-> NoLoan, status_app |-> "U", total_loans |-> 0, access |-> TRUE,
     is_recurrent |-> FALSE]

(* The response dict as validate_access initialises it. *)
DefaultResponse ==
    [success |-> FALSE, error |-> "", status_preapproved |-> 0, flow |-> dashboard,
     current_loan |-> NoLoan, status_app |-> "U", total_loans |-> 0, access |-> FALSE,
     is_recurrent |-> FALSE]

(* Variants of status_pre_disper: one without REJECTED, one with ACTIVE. *)
status_pre_disper_in_process_only == {"IN_PROCESS"}
status_pre_disper_with_active == {"IN_PROCESS", "REJECTED", "ACTIVE"}

status_pre_disper == {"IN_PROCESS", "REJECTED"}
status_primary == {"IN_PROCESS", "REJECTED", "ACTIVE", "LATE", "EXPIRED"}
(* Variants of status_default: one with ACTIVE, one without CLOSED. *)
status_default_with_active == {"IN_PROCESS", "CLOSED", "REJECTED", "ACTIVE"}
status_default_without_closed == {"IN_PROCESS", "REJECTED"}

status_default == {"IN_PROCESS", "CLOSED", "REJECTED"}

(* Variant of the fail-fast error text that leaves the arguments out. *)
InvalidInputError_without_arguments(client, customer) ==
    "data to validate access is incorrect"

(* The error text of the fail-fast return; str(None) is "None". *)
InvalidInputError(client, customer) ==
    "data to validate access is incorrect client_id: " \o client \o " customer_id: " \o customer

(* find_loan_by_client: None when the engine raises, [] when it returns    *)
(* nothing, the rows otherwise.                                            *)
find_loan_by_client(table) ==
    LET response_loan == get_items_by_query_from_dynamo(table)
    IN  IF response_loan.raised THEN [none |-> TRUE, rows |-> <<>>]
        ELSE IF response_loan.none \/ response_loan.rows = <<>>
             THEN [none |-> FALSE, rows |-> <<>>]
             ELSE [none |-> FALSE, rows |-> response_loan.rows]

(* find_offer_by_client / find_status_by_id: None when get_item raises,    *)
(* else validate_response_dynamo_query(resp, True, True, "Item").          *)
find_offer_by_client(resp) ==
    IF resp.raises THEN [none |-> TRUE, Item |-> NoItem]
    ELSE LET v == validate_response_dynamo_query(
                      [HTTPStatusCode |-> resp.HTTPStatusCode, present |-> resp.present,
                       data |-> resp.Item], TRUE, TRUE)
         IN  IF v.none THEN [none |-> TRUE, Item |-> NoItem]
             ELSE [none |-> FALSE, Item |-> v.data]

find_status_by_id(resp) ==
    IF resp.raises THEN [none |-> TRUE, Item |-> NoStatus]
    ELSE LET v == validate_response_dynamo_query(
                      [HTTPStatusCode |-> resp.HTTPStatusCode, present |-> resp.present,
                       data |-> resp.Item], TRUE, TRUE)
         IN  IF v.none THEN [none |-> TRUE, Item |-> NoStatus]
             ELSE [none |-> FALSE, Item |-> v.data]

(* Variant of the for loop that keeps the first loan with a primary status. *)
RECURSIVE ScanLoans_first_match(_, _)
ScanLoans_first_match(ls, current) ==
    IF ls = <<>> THEN current
    ELSE ScanLoans_first_match(Tail(ls),
            IF Head(ls).Status \in status_primary /\ current = NoLoan THEN Head(ls) ELSE current)

(* The for loop over the loans: every loan with a primary status replaces  *)
(* current_loan.                                                           *)
RECURSIVE ScanLoans(_, _)
ScanLoans(ls, current) ==
    IF ls = <<>> THEN current
    ELSE ScanLoans(Tail(ls), IF Head(ls).Status \in status_primary THEN Head(ls) ELSE current)

(* Variant of Section 1 that leaves the flow alone when there is no loan. *)
EvaluateLoans_keeping_flow(resp, ls) ==
    IF Len(ls) > 0
    THEN IF Len(ls) > 1
         THEN LET scanned == ScanLoans(ls, resp.current_loan)
              IN  [resp EXCEPT !.access = TRUE, !.success = TRUE, !.total_loans = Len(ls),
                               !.current_loan = IF scanned = NoLoan THEN ls[Len(ls)] ELSE scanned]
         ELSE IF ls[1].Status \in status_pre_disper
              THEN [resp EXCEPT !.total_loans = 1, !.flow = on_boarding, !.current_loan = ls[1]]
              ELSE [resp EXCEPT !.total_loans = 1, !.access = TRUE, !.current_loan = ls[1]]
    ELSE resp

(* Section 1 once the loans are fetched. *)
EvaluateLoans(resp, ls) ==
    IF Len(ls) > 0
    THEN IF Len(ls) > 1
         THEN LET scanned == ScanLoans(ls, resp.current_loan)
              IN  [resp EXCEPT !.access = TRUE, !.success = TRUE, !.total_loans = Len(ls),
                               !.current_loan = IF scanned = NoLoan THEN ls[Len(ls)] ELSE scanned]
         ELSE IF ls[1].Status \in status_pre_disper
              THEN [resp EXCEPT !.total_loans = 1, !.flow = on_boarding, !.current_loan = ls[1]]
              ELSE [resp EXCEPT !.total_loans = 1, !.access = TRUE, !.current_loan = ls[1]]
    ELSE [resp EXCEPT !.flow = on_boarding]

(* Variant of the failed-loan-fetch return that sends to on-boarding. *)
LoansNotFound_to_onboarding(resp) == [resp EXCEPT !.flow = on_boarding]

(* loans is None: the response goes back as it is. *)
LoansNotFound(resp) == resp

(* Variant of the missing-offer return that reports success. *)
OfferNotFound_forcing_success(resp) == [resp EXCEPT !.error = _OFFER_NOT_FOUND, !.success = TRUE]

(* The offer is None or carries 'Message'. *)
OfferNotFound(resp) == [resp EXCEPT !.error = _OFFER_NOT_FOUND]

(* Variant of the return without StatusPreapproved that reports success. *)
OfferWithoutStatus_forcing_success(resp) == [resp EXCEPT !.success = TRUE]

(* The offer has no StatusPreapproved: the if at line 900 is skipped and   *)
(* the response goes back as Section 1 left it.                            *)
OfferWithoutStatus(resp) == resp

(* Variant of the missing-status return that reports success. *)
StatusNotFound_forcing_success(resp) ==
    [resp EXCEPT !.error = _STATUS_PREPPROVED_NOT_FOUND, !.success = TRUE]

(* The status row is None. *)
StatusNotFound(resp) == [resp EXCEPT !.error = _STATUS_PREPPROVED_NOT_FOUND]

(* Variant without the remap of 5. *)
remap_identity(status_preapproved) == status_preapproved

(* The reassignment of the local status_preapproved before the lookup. *)
remap_status_preapproved(status_preapproved) ==
    IF status_preapproved = 5 THEN 2 ELSE status_preapproved

(* Variant of Section 2 that writes the offer's own StatusPreapproved back. *)
EvaluateOffer_writing_raw(resp, off, st, status_preapproved) ==
    LET status_current_loan ==
            IF resp.current_loan /= NoLoan THEN resp.current_loan.Status ELSE ""
        r1 == IF off.statusApp = "U" /\ st.Description = "Oferta"
              THEN IF resp.flow = dashboard /\ status_current_loan \in status_default
                   THEN [resp EXCEPT !.status_preapproved = 5]
                   ELSE resp
              ELSE [resp EXCEPT !.is_recurrent =
                                    IF resp.flow = dashboard /\ status_current_loan \in status_default
                                    THEN TRUE ELSE @,
                                !.access = TRUE,
                                !.status_app = off.statusApp]
        current_sp == r1.status_preapproved
        r2 == IF current_sp /= 5 THEN [r1 EXCEPT !.status_preapproved = off.StatusPreapproved] ELSE r1
    IN  [r2 EXCEPT !.success = TRUE]

(* Section 2 once offer and status are at hand; status_preapproved is the  *)
(* local variable as it stands after the remap.                            *)
EvaluateOffer(resp, off, st, status_preapproved) ==
    LET status_current_loan ==
            IF resp.current_loan /= NoLoan THEN resp.current_loan.Status ELSE ""
        r1 == IF off.statusApp = "U" /\ st.Description = "Oferta"
              THEN IF resp.flow = dashboard /\ status_current_loan \in status_default
                   THEN [resp EXCEPT !.status_preapproved = 5]
                   ELSE resp
              ELSE [resp EXCEPT !.is_recurrent =
                                    IF resp.flow = dashboard /\ status_current_loan \in status_default
                                    THEN TRUE ELSE @,
                                !.access = TRUE,
                                !.status_app = off.statusApp]
        current_sp == r1.status_preapproved
        r2 == IF current_sp /= 5 THEN [r1 EXCEPT !.status_preapproved = status_preapproved] ELSE r1
    IN  [r2 EXCEPT !.success = TRUE]

----------------------------------------------------------------------------
(* What the store can hold for one resolver call.                          *)
ClientIds == {"c1"}
CustomerIds == {"210045"}
LoanStatuses == {"IN_PROCESS", "ACTIVE", "CLOSED", "LATE", "EXPIRED", "REJECTED", "UNKNOWN"}
StatusSeqs == UNION {[1..n -> LoanStatuses] : n \in 0..MaxLoans}
FetchModes == {"ok", "status", "raise"}

(* The loans of a client laid out in pages of MaxPageRows rows; in mode    *)
(* "status" the last page is not 200, in mode "raise" its query raises.    *)
NumPages(n) == IF n = 0 THEN 1 ELSE (n + MaxPageRows - 1) \div MaxPageRows
LoanShape(n, mode) ==
    [k \in 1..NumPages(n) |->
        [n |-> IF k < NumPages(n) THEN MaxPageRows ELSE n - (k - 1) * MaxPageRows,
         code |-> IF mode = "status" /\ k = NumPages(n) THEN HTTP_ERROR ELSE HTTP_OK,
         raises |-> mode = "raise" /\ k = NumPages(n)]]
LoanTables == {BuildPages(sts, LoanShape(Len(sts), mode), 0) : sts \in StatusSeqs, mode \in FetchModes}

OfferItems ==
    {[Message |-> FALSE, StatusPreapproved |-> sp, statusApp |-> a] :
        sp \in {NoCode, 1, 2, 5}, a \in {"U", "A", None}}
    \cup {[Message |-> TRUE, StatusPreapproved |-> 2, statusApp |-> "U"]}
OfferResponses ==
    {[raises |-> FALSE, HTTPStatusCode |-> HTTP_OK, present |-> TRUE, Item |-> it] : it \in OfferItems}
    \cup {[raises |-> FALSE, HTTPStatusCode |-> HTTP_OK, present |-> FALSE, Item |-> NoItem],
          [raises |-> FALSE, HTTPStatusCode |-> HTTP_ERROR, present |-> TRUE, Item |-> NoItem],
          [raises |-> TRUE, HTTPStatusCode |-> HTTP_OK, present |-> FALSE, Item |-> NoItem]}

StatusIDs == {1, 2, 5}
CatalogEntries == {[present |-> FALSE, Description |-> None],
                   [present |-> TRUE, Description |-> "Oferta"],
                   [present |-> TRUE, Description |-> "Rechazado"]}
Catalogs == [StatusIDs -> CatalogEntries]
EmptyCatalog == [id \in StatusIDs |-> [present |-> FALSE, Description |-> None]]

(* table.get_item on StatusPreaproved with Key StatusID = key. *)
CatalogGetItem(cat, key, mode) ==
    [raises |-> mode = "raise",
     HTTPStatusCode |-> IF mode = "status" THEN HTTP_ERROR ELSE HTTP_OK,
     present |-> cat[key].present,
     Item |-> [Description |-> cat[key].Description]]

----------------------------------------------------------------------------
(* validate_access, one call per behaviour, one action per store call.     *)
InitAccess ==
    /\ QueryOff
    /\ WritesOff
    /\ ReconOff
    /\ exc = ""
    /\ pc = "idle"
    /\ client_id = None /\ customer_id = None
    /\ loans = [none |-> TRUE, rows |-> <<>>]
    /\ offer = [none |-> TRUE, Item |-> NoItem]
    /\ catalog = EmptyCatalog
    /\ status = [none |-> TRUE, Item |-> NoStatus]
    /\ status_key = NoCode
    /\ calls = <<>>
    /\ stepA = DefaultResponse
    /\ response = DefaultResponse

(* Entry: build the default response, fail fast on a missing argument. *)
Call ==
    /\ pc = "idle"
    /\ \E c \in ClientIds \cup {None}, k \in CustomerIds \cup {None} :
        /\ client_id' = c
        /\ customer_id' = k
        /\ IF c = None \/ k = None
           THEN /\ response' = [DefaultResponse EXCEPT !.error = InvalidInputError(c, k)]
                /\ pc' = "done"
           ELSE /\ response' = DefaultResponse
                /\ pc' = "loans"
    /\ stepA' = DefaultResponse
    /\ UNCHANGED <<loans, offer, catalog, status, status_key, calls, exc>>
    /\ UNCHANGED nonaccess

(* Section 1: fetch the loans and evaluate them. *)
Section1 ==
    /\ pc = "loans"
    /\ \E table \in LoanTables :
        LET ls == find_loan_by_client(table)
        IN  /\ loans' = ls
            /\ IF ls.none
               THEN /\ response' = LoansNotFound(response)
                    /\ pc' = "done"
               ELSE /\ response' = EvaluateLoans(response, ls.rows)
                    /\ pc' = "offer"
    /\ calls' = Append(calls, "Loan")
    /\ stepA' = response'
    /\ UNCHANGED <<client_id, customer_id, offer, catalog, status, status_key, exc>>
    /\ UNCHANGED nonaccess

(* Section 2, first half: fetch the offer and read StatusPreapproved. *)
Section2Offer ==
    /\ pc = "offer"
    /\ \E resp \in OfferResponses :
        LET off == find_offer_by_client(resp)
        IN  /\ offer' = off
            /\ IF off.none \/ off.Item.Message
               THEN /\ response' = OfferNotFound(response)
                    /\ pc' = "done"
               ELSE IF off.Item.StatusPreapproved = NoCode
                    THEN /\ response' = OfferWithoutStatus(response)
                         /\ pc' = "done"
                    ELSE /\ response' = response
                         /\ pc' = "status"
    /\ calls' = Append(calls, "lending-loan-offers")
    /\ UNCHANGED <<client_id, customer_id, loans, catalog, status, status_key, stepA, exc>>
    /\ UNCHANGED nonaccess

(* Section 2, second half: look the status up and decide. *)
Section2Status ==
    /\ pc = "status"
    /\ \E cat \in Catalogs, mode \in FetchModes :
        LET status_preapproved == remap_status_preapproved(offer.Item.StatusPreapproved)
            st == find_status_by_id(CatalogGetItem(cat, status_preapproved, mode))
        IN  /\ catalog' = cat
            /\ status_key' = status_preapproved
            /\ status' = st
            /\ IF st.none
               THEN response' = StatusNotFound(response)
               ELSE response' = EvaluateOffer(response, offer.Item, st.Item, status_preapproved)
    /\ pc' = "done"
    /\ calls' = Append(calls, "StatusPreaproved")
    /\ UNCHANGED <<client_id, customer_id, loans, offer, stepA, exc>>
    /\ UNCHANGED nonaccess

(* Variant of the try block that ends before the status lookup. *)
try_block_without_status == {"loans", "offer"}

(* The positions of validate_access that its try/except encloses. *)
try_block_validate_access == {"loans", "offer", "status"}

(* get_table raises inside find_offer_by_client or find_status_by_id,      *)
(* outside their own try: no store call is issued and the exception        *)
(* reaches validate_access, whose except returns the response as it is.    *)
Section2Raises ==
    /\ pc \in {"offer", "status"}
    /\ IF pc \in try_block_validate_access
       THEN exc' = "caught" /\ pc' = "done"
       ELSE exc' = "escaped" /\ pc' = "raised"
    /\ UNCHANGED <<client_id, customer_id, loans, offer, catalog, status, status_key, calls,
                   stepA, response>>
    /\ UNCHANGED nonaccess

NextAccess == Call \/ Section1 \/ Section2Offer \/ Section2Status \/ Section2Raises

SpecAccess == InitAccess /\ [][NextAccess]_vars

----------------------------------------------------------------------------
(* Properties of validate_access (checked under SpecAccess).               *)
Called(t) == \E i \in 1..Len(calls) : calls[i] = t
LoansFetched == Called("Loan") /\ ~loans.none
OfferFetched == Called("lending-loan-offers")
StatusLookedUp == Called("StatusPreaproved")
Decided == pc = "done" /\ StatusLookedUp /\ ~status.none
UnsetOffer == offer.Item.statusApp = "U" /\ status.Item.Description = "Oferta"
OverrideApplies ==
    /\ UnsetOffer
    /\ stepA.flow = "dashboard"
    /\ stepA.current_loan.Status \in {"IN_PROCESS", "CLOSED", "REJECTED"}
SingleLoan(st) == LoansFetched /\ Len(loans.rows) = 1 /\ loans.rows[1].Status = st

\* C1 (as stated): with 0 loans the result has flow "onboarding" and
\* access false whatever the offer and the catalog hold.
C1_ZeroLoansNoAccess ==
    (pc = "done" /\ LoansFetched /\ Len(loans.rows) = 0) =>
        response.flow = "onboarding" /\ response.access = FALSE

\* C1 (amended): with 0 loans the result has flow "onboarding"; access is
\* false unless Step B reaches its decision with an offer/catalog combination
\* other than (statusApp "U" and description "Oferta"), and then it is true.
C1_ZeroLoansOnboarding ==
    (pc = "done" /\ LoansFetched /\ Len(loans.rows) = 0) =>
        /\ response.flow = "onboarding"
        /\ response.total_loans = 0
        /\ response.access = (Decided /\ ~UnsetOffer)

C1_Witness ==
    /\ pc = "done" /\ LoansFetched /\ Len(loans.rows) = 0
    /\ Decided /\ ~UnsetOffer
    /\ response.flow = "onboarding" /\ response.access = TRUE

\* C2 (as stated): with exactly one loan, REJECTED, the result has flow
\* "onboarding" and access false whatever the offer and the catalog hold.
C2_RejectedNoAccess ==
    (pc = "done" /\ SingleLoan("REJECTED")) =>
        response.flow = "onboarding" /\ response.access = FALSE

\* C2 (amended): with exactly one loan, REJECTED, the result has flow
\* "onboarding"; access is false unless Step B reaches its decision with an
\* offer/catalog combination other than (statusApp "U" and description
\* "Oferta"), and then it is true.
C2_RejectedOnboarding ==
    (pc = "done" /\ SingleLoan("REJECTED")) =>
        /\ response.flow = "onboarding"
        /\ response.access = (Decided /\ ~UnsetOffer)

C2_Witness ==
    /\ pc = "done" /\ SingleLoan("REJECTED")
    /\ Decided /\ offer.Item.statusApp = "A"
    /\ response.flow = "onboarding" /\ response.access = TRUE

C5_RawWrittenBack ==
    (Decided /\ ~OverrideApplies) =>
        response.status_preapproved = offer.Item.StatusPreapproved

\* C5 (amended): when the decision is reached and the override does not set 5,
\* status_preapproved is the code the catalog was looked up with: the raw
\* StatusPreapproved, except that a raw 5 comes out as 2.
C5_RemappedWrittenBack ==
    (Decided /\ ~OverrideApplies) =>
        response.status_preapproved =
            IF offer.Item.StatusPreapproved = 5 THEN 2 ELSE offer.Item.StatusPreapproved

C5_Witness ==
    /\ Decided /\ ~OverrideApplies
    /\ offer.Item.StatusPreapproved = 5
    /\ response.status_preapproved = 2

\* C6: an offer with StatusPreapproved 5 is looked up in the catalog with key
\* 2, never 5: the status obtained is the catalog's entry for 2.
C6_LookupWithTwo ==
    (~offer.none /\ offer.Item.StatusPreapproved = 5) =>
        /\ status_key \in {NoCode, 2}
        /\ StatusLookedUp =>
              /\ status_key = 2
              /\ ~status.none => (catalog[2].present
                                    /\ status.Item.Description = catalog[2].Description)

C6_Witness ==
    /\ Decided
    /\ offer.Item.StatusPreapproved = 5
    /\ status_key = 2
    /\ catalog[5].present /\ catalog[5].Description /= catalog[2].Description
    /\ status.Item.Description = catalog[2].Description

\* C7: when the offer lookup returns nothing, the result carries error
\* "Offer not found", no catalog lookup is made, every other field keeps its
\* Section 1 value, and success is true exactly when 2 or more loans were found.
C7_OfferNotFound ==
    (pc = "done" /\ OfferFetched /\ offer.none) =>
        /\ response.error = "Offer not found"
        /\ ~StatusLookedUp /\ status_key = NoCode
        /\ response = [stepA EXCEPT !.error = "Offer not found"]
        /\ response.success = (Len(loans.rows) >= 2)

C7_Witness ==
    /\ pc = "done" /\ OfferFetched /\ offer.none
    /\ Len(loans.rows) >= 2
    /\ response.success = TRUE
    /\ response.error = "Offer not found"

InvalidInput == pc = "done" /\ (client_id = None \/ customer_id = None)

\* C16: with client_id or customer_id absent validate_access returns at once:
\* no loan, offer or status lookup is issued and every field but error has its
\* default value.
C16_InvalidInputNoStoreCall ==
    InvalidInput =>
        /\ calls = <<>>
        /\ status_key = NoCode
        /\ response.success = FALSE
        /\ response.access = FALSE
        /\ response.flow = "dashboard"
        /\ response.status_preapproved = 0
        /\ response.current_loan = NoLoan
        /\ response.status_app = "U"
        /\ response.total_loans = 0
        /\ response.is_recurrent = FALSE

C16_Witness ==
    /\ InvalidInput
    /\ client_id = None /\ customer_id /= None
    /\ calls = <<>>
    /\ response.success = FALSE /\ response.flow = "dashboard"

\* C17 (as stated): with client_id or customer_id absent the error field is
\* exactly "invalid input".
C17_ErrorIsInvalidInput ==
    InvalidInput => response.error = "invalid input"

\* C17 (amended): with client_id or customer_id absent the error field is
\* "data to validate access is incorrect client_id: <client_id> customer_id:
\* <customer_id>", an absent argument being printed as None.
C17_ErrorNamesArguments ==
    InvalidInput =>
        response.error =
            IF client_id = None /\ customer_id = None
            THEN "data to validate access is incorrect client_id: None customer_id: None"
            ELSE IF client_id = None
            THEN "data to validate access is incorrect client_id: None customer_id: 210045"
            ELSE "data to validate access is incorrect client_id: c1 customer_id: None"

C17_Witness ==
    /\ InvalidInput
    /\ client_id = "c1" /\ customer_id = None
    /\ response.error = "data to validate access is incorrect client_id: c1 customer_id: None"

LoanFetchFailed == pc = "done" /\ Called("Loan") /\ loans.none

\* C21: when the loan fetch of Step A fails (a page that is not 200 or a
\* raising query) validate_access returns the default failure result:
\* success false, access false, flow "dashboard", total_loans 0, no
\* current_loan, status_app "U", status_preapproved 0, is_recurrent false;
\* neither the offer nor the status catalog is looked up.
C21_LoanFetchFailureGivesDefault ==
    LoanFetchFailed =>
        /\ response = DefaultResponse
        /\ response.success = FALSE /\ response.access = FALSE
        /\ response.flow = "dashboard" /\ response.total_loans = 0
        /\ response.current_loan = NoLoan /\ response.status_app = "U"
        /\ response.status_preapproved = 0 /\ response.is_recurrent = FALSE
        /\ calls = <<"Loan">>

C21_Witness ==
    /\ LoanFetchFailed
    /\ response.flow = "dashboard"
    /\ ~OfferFetched

StatusMissing == pc = "done" /\ StatusLookedUp /\ status.none

\* C22: when the offer has a StatusPreapproved and the catalog lookup of the
\* remapped code finds no entry or fails, validate_access sets error to
\* "Status preapproved not found" and returns: every other field, success
\* included, keeps its Step-A value.
C22_StatusNotFoundKeepsStepA ==
    StatusMissing =>
        /\ response.error = "Status preapproved not found"
        /\ response = [stepA EXCEPT !.error = "Status preapproved not found"]

C22_Witness ==
    /\ StatusMissing
    /\ offer.Item.StatusPreapproved = 5
    /\ status_key = 2
    /\ stepA.success = FALSE
    /\ response.success = FALSE
    /\ response.total_loans = 1

RecurrentLoan ==
    /\ stepA.flow = "dashboard"
    /\ stepA.current_loan.Status \in {"IN_PROCESS", "CLOSED", "REJECTED"}

\* C23: in Step B, when the offer's statusApp is "U" and the catalog
\* description is "Oferta", access, status_app and is_recurrent keep their
\* Step-A values (status_app "U", is_recurrent false) and status_preapproved
\* is 5 exactly when flow is "dashboard" and the Status of current_loan is
\* IN_PROCESS, CLOSED or REJECTED.
C23_UnsetOfferOverride ==
    (Decided /\ UnsetOffer) =>
        /\ response.access = stepA.access
        /\ response.status_app = stepA.status_app
        /\ response.status_app = "U"
        /\ response.is_recurrent = stepA.is_recurrent
        /\ response.is_recurrent = FALSE
        /\ (response.status_preapproved = 5) = RecurrentLoan

C23_Witness ==
    /\ Decided
    /\ UnsetOffer
    /\ RecurrentLoan
    /\ stepA.current_loan.Status = "CLOSED"
    /\ response.status_preapproved = 5
    /\ response.access

\* C24: in Step B, for every offer and catalog combination other than
\* (statusApp "U" and description "Oferta"), access is true, status_app is
\* the offer's statusApp, status_preapproved is never 5 and is_recurrent is
\* true exactly when flow is "dashboard" and the Status of current_loan is
\* IN_PROCESS, CLOSED or REJECTED.
C24_OtherOfferGrantsAccess ==
    (Decided /\ ~UnsetOffer) =>
        /\ response.access = TRUE
        /\ response.status_app = offer.Item.statusApp
        /\ response.status_preapproved /= 5
        /\ response.status_preapproved = status_key
        /\ response.is_recurrent = RecurrentLoan

C24_Witness ==
    /\ Decided
    /\ offer.Item.statusApp = "A"
    /\ offer.Item.StatusPreapproved = 5
    /\ status.Item.Description = "Oferta"
    /\ RecurrentLoan
    /\ response.is_recurrent
    /\ response.status_app = "A"
    /\ response.status_preapproved = 2

\* C27: whenever validate_access returns status_preapproved 5, the override
\* produced it: status_app is "U", is_recurrent is false, flow is
\* "dashboard", access is true and current_loan is a loan whose Status is
\* IN_PROCESS, CLOSED or REJECTED; so status_preapproved 5 and is_recurrent
\* true never come together.
C27_FiveOnlyByOverride ==
    (pc = "done" /\ response.status_preapproved = 5) =>
        /\ Decided /\ OverrideApplies
        /\ response.status_app = "U"
        /\ response.is_recurrent = FALSE
        /\ response.flow = "dashboard"
        /\ response.access = TRUE
        /\ response.current_loan /= NoLoan
        /\ response.current_loan.Status \in {"IN_PROCESS", "CLOSED", "REJECTED"}

C27_Witness ==
    /\ pc = "done"
    /\ response.status_preapproved = 5
    /\ response.current_loan.Status = "REJECTED"
    /\ response.total_loans = 2
    /\ offer.Item.StatusPreapproved = 1

OfferLacksStatus ==
    /\ pc = "done"
    /\ OfferFetched
    /\ ~offer.none
    /\ ~offer.Item.Message
    /\ offer.Item.StatusPreapproved = NoCode

\* C30: when the Offer row exists without a StatusPreapproved attribute,
\* validate_access looks nothing up in the status catalog and returns the
\* Step-A result unchanged with an empty error; success is then true only
\* when two or more loans were found.
C30_NoStatusKeepsStepA ==
    OfferLacksStatus =>
        /\ ~StatusLookedUp
        /\ response = stepA
        /\ response.error = ""
        /\ response.status_app = "U"
        /\ response.is_recurrent = FALSE
        /\ response.status_preapproved = 0
        /\ response.success = (Len(loans.rows) >= 2)

C30_Witness ==
    /\ OfferLacksStatus
    /\ response.success = FALSE
    /\ response.error = ""
    /\ Len(loans.rows) = 1
    /\ response.access

----------------------------------------------------------------------------
(* The store writers: update_dynamic_fields_in_dynamo, create_row_in_dynamo *)
(* and create_inswitch_transactions.  A Python value is a record of its     *)
(* type and its printed form.                                               *)
PyBool(x) == [t |-> "bool", v |-> x]
PyInt(x) == [t |-> "int", v |-> x]
PyFloat(x) == [t |-> "float", v |-> x]
PyStr(x) == [t |-> "str", v |-> x]
PyDecimal(x) == [t |-> "Decimal", v |-> x]
NoValue == [t |-> "absent", v |-> ""]

(* str(localtime.isoformat(timespec='seconds')) *)
isoformat(now) == "2026-11-01T00:00:0" \o ToString(now)

FieldNames == {"Amount", "Active"}
DateFields == {"LastUpdate"}
AllFields == FieldNames \cup DateFields
FieldValues == {PyBool("True"), PyInt("7"), PyFloat("0.1")}
FieldMappings == UNION {[S -> FieldValues] : S \in (SUBSET FieldNames) \ {{}}}
WriteModes == {"ok", "status", "nometa", "raise"}
EmptyRecord == [f \in AllFields |-> NoValue]

(* What update_item / put_item answers in each mode; only "ok" writes. *)
StoreResponse(mode) ==
    [raises |-> mode = "raise",
     ResponseMetadata |-> mode /= "nometa",
     HTTPStatusCode |-> IF mode = "ok" THEN HTTP_OK ELSE HTTP_ERROR]

(* The per-value coercion of the builder: bool and int unchanged, float    *)
(* through Decimal(str(value)).                                            *)
coerce_value(value) ==
    IF value.t = "bool" THEN value
    ELSE IF value.t = "int" THEN value
    ELSE IF value.t = "float" THEN PyDecimal(value.v)
    ELSE value

(* Variant of the builder's first lines that stamps LastUpdate always. *)
fields_with_date_always(fields_to_update, update_date_field, now) ==
    [f \in DOMAIN fields_to_update \cup {"LastUpdate"} |->
        IF f = "LastUpdate" THEN PyStr(isoformat(now)) ELSE fields_to_update[f]]

(* The mapping after the optional update_date_field has been added. *)
fields_with_date(fields_to_update, update_date_field, now) ==
    IF update_date_field /= None
    THEN [f \in DOMAIN fields_to_update \cup {update_date_field} |->
            IF f = update_date_field THEN PyStr(isoformat(now)) ELSE fields_to_update[f]]
    ELSE fields_to_update

(* The request the builder hands to update_item: one 'set' clause per      *)
(* field, with #field and :field placeholders.                             *)
build_update(fields_to_update) ==
    [UpdateExpression |-> {<<"#" \o f, ":" \o f>> : f \in DOMAIN fields_to_update},
     ExpressionAttributeNames |->
        [n \in {"#" \o f : f \in DOMAIN fields_to_update} |->
            CHOOSE f \in DOMAIN fields_to_update : n = "#" \o f],
     ExpressionAttributeValues |->
        [n \in {":" \o f : f \in DOMAIN fields_to_update} |->
            coerce_value(fields_to_update[CHOOSE f \in DOMAIN fields_to_update : n = ":" \o f])]]

(* The store's 'set': every clause overwrites its attribute. *)
StoreUpdateItem(record, request) ==
    [f \in AllFields |->
        IF \E c \in request.UpdateExpression : request.ExpressionAttributeNames[c[1]] = f
        THEN LET c == CHOOSE c \in request.UpdateExpression :
                          request.ExpressionAttributeNames[c[1]] = f
             IN  request.ExpressionAttributeValues[c[2]]
        ELSE record[f]]

(* Variant of the builder's return that takes any answer with metadata for *)
(* a success.                                                              *)
update_return_ignoring_status(resp) ==
    IF resp.raises THEN FALSE
    ELSE IF ~resp.ResponseMetadata THEN FALSE
    ELSE TRUE

(* The builder's return value for an answer of update_item. *)
update_return(resp) ==
    IF resp.raises THEN FALSE
    ELSE IF ~resp.ResponseMetadata \/ resp.HTTPStatusCode /= HTTP_OK THEN FALSE
    ELSE TRUE

(* The return value of create_row_in_dynamo / create_inswitch_transactions *)
(* for an answer of put_item: the test is                                  *)
(*   'ResponseMetadata' not in r and r['ResponseMetadata'][..] != 200      *)
(* whose second operand raises KeyError when the first is true.            *)
put_return(resp) ==
    IF resp.raises THEN FALSE
    ELSE IF ~resp.ResponseMetadata
         THEN FALSE      \* KeyError, caught by the except
         ELSE TRUE       \* 'not in' is False: the status is never looked at

InitWrites ==
    /\ QueryOff
    /\ AccessOff
    /\ ReconOff
    /\ wpc = "run"
    /\ wrecord \in {EmptyRecord, [EmptyRecord EXCEPT !["Amount"] = PyDecimal("2.5")]}
    /\ wrows = {}
    /\ wclock = 0
    /\ wops = 0
    /\ wlast = [op |-> "none", fields |-> <<>>, date_field |-> None, mode |-> "ok",
                result |-> FALSE, item |-> "", now |-> 0]
    /\ wprev = [valid |-> FALSE, fields |-> <<>>, date_field |-> None, after |-> EmptyRecord]

(* A second passes. *)
Tick ==
    /\ wpc = "run"
    /\ wclock < MaxClock
    /\ wclock' = wclock + 1
    /\ UNCHANGED <<wpc, wrecord, wrows, wops, wlast, wprev>>
    /\ UNCHANGED nonwrites

(* update_dynamic_fields_in_dynamo(table_name, key, fields, date_field) *)
Update ==
    /\ wpc = "run"
    /\ wops < MaxOps
    /\ \E fields \in FieldMappings, date_field \in DateFields \cup {None}, mode \in WriteModes :
        LET request == build_update(fields_with_date(fields, date_field, wclock))
            resp == StoreResponse(mode)
        IN  /\ wrecord' = IF mode = "ok" THEN StoreUpdateItem(wrecord, request) ELSE wrecord
            /\ wlast' = [op |-> "update", fields |-> fields, date_field |-> date_field,
                         mode |-> mode, result |-> update_return(resp), item |-> "",
                         now |-> wclock]
    /\ wprev' = IF wlast.op = "update" /\ wlast.result
                THEN [valid |-> TRUE, fields |-> wlast.fields, date_field |-> wlast.date_field,
                      after |-> wrecord]
                ELSE [valid |-> FALSE, fields |-> <<>>, date_field |-> None, after |-> EmptyRecord]
    /\ wops' = wops + 1
    /\ UNCHANGED <<wpc, wrows, wclock>>
    /\ UNCHANGED nonwrites

(* create_row_in_dynamo(table_name, item) *)
CreateRow ==
    /\ wpc = "run"
    /\ wops < MaxOps
    /\ \E item \in {"row1", "row2"}, mode \in WriteModes :
        /\ wrows' = IF mode = "ok" THEN wrows \cup {item} ELSE wrows
        /\ wlast' = [op |-> "create_row", fields |-> <<>>, date_field |-> None, mode |-> mode,
                     result |-> put_return(StoreResponse(mode)), item |-> item,
                     now |-> wclock]
    /\ wops' = wops + 1
    /\ UNCHANGED <<wpc, wrecord, wclock, wprev>>
    /\ UNCHANGED nonwrites

(* create_inswitch_transactions(client_id, loan_id, idempotency_key, ..) *)
CreateInswitchTransaction ==
    /\ wpc = "run"
    /\ wops < MaxOps
    /\ \E key \in {"idem1"}, mode \in WriteModes :
        LET item == key \o "@" \o isoformat(wclock)
        IN  /\ wrows' = IF mode = "ok" THEN wrows \cup {item} ELSE wrows
            /\ wlast' = [op |-> "create_inswitch", fields |-> <<>>, date_field |-> None,
                         mode |-> mode, result |-> put_return(StoreResponse(mode)),
                         item |-> item, now |-> wclock]
    /\ wops' = wops + 1
    /\ UNCHANGED <<wpc, wrecord, wclock, wprev>>
    /\ UNCHANGED nonwrites

NextWrites == Tick \/ Update \/ CreateRow \/ CreateInswitchTransaction

SpecWrites == InitWrites /\ [][NextWrites]_vars

----------------------------------------------------------------------------
(* Properties of the store writers (checked under SpecWrites).             *)
AppliedTwice ==
    /\ wlast.op = "update" /\ wlast.result
    /\ wprev.valid
    /\ wprev.fields = wlast.fields
    /\ wprev.date_field = wlast.date_field

\* C11 (as stated): a second successful update with the same field mapping
\* as the successful update before it leaves the stored record as the first
\* one left it.
C11_Idempotent ==
    AppliedTwice => wrecord = wprev.after

\* C11 (amended): a second successful update with the same field mapping
\* leaves the stored record as the first one left it when no update_date_field
\* is given; with an update_date_field every other attribute is as the first
\* update left it and the date attribute holds the time of the second call.
C11_IdempotentButForDate ==
    AppliedTwice =>
        /\ \A f \in AllFields : f /= wlast.date_field => wrecord[f] = wprev.after[f]
        /\ wlast.date_field = None => wrecord = wprev.after
        /\ wlast.date_field /= None =>
              wrecord[wlast.date_field] = [t |-> "str", v |-> isoformat(wlast.now)]

C11_Witness ==
    /\ AppliedTwice
    /\ wlast.date_field = None
    /\ "Amount" \in DOMAIN wlast.fields
    /\ wlast.fields["Amount"] = [t |-> "float", v |-> "0.1"]
    /\ wrecord["Amount"] = [t |-> "Decimal", v |-> "0.1"]
    /\ wrecord = wprev.after

\* C18: update_dynamic_fields_in_dynamo returns False when update_item raises,
\* answers without metadata or with a status other than 200, and True only
\* when the store reports success; it never raises.
C18_UpdateReturnsFalseOnFailure ==
    wlast.op = "update" => (wlast.result = (wlast.mode = "ok"))

C18_Witness ==
    /\ wlast.op = "update"
    /\ wlast.mode = "status"
    /\ wlast.result = FALSE

\* C19: create_row_in_dynamo and create_inswitch_transactions return True
\* exactly when the insert succeeded: False for a status other than 200, for
\* an answer without metadata and for a raising put_item.
C19_CreateReturnsTrueIffInserted ==
    wlast.op \in {"create_row", "create_inswitch"} =>
        (wlast.result = (wlast.mode = "ok"))

----------------------------------------------------------------------------
(* compare_client_data: the phone reconciler.  Two calls run side by side  *)
(* against one Client row and the UpdatedCustomerAccounts table; each      *)
(* partner or store call of a call is one step.                            *)
Phones == {"0984807373", "0991112222"}
StoredPhones == {"0984807373", "0970000000", None}
ExternalIds == {"2147"}
Processes == {"Login"}

ClientRows == [ClientID : {"cl-7"}, Msisdn : StoredPhones, ClientIDMTS : ExternalIds]
EmptyClient == [ClientID |-> "", Msisdn |-> "", ClientIDMTS |-> ""]

(* The info_response dict as built at the top of compare_client_data.      *)
info_response_default ==
    [success |-> FALSE, edited |-> FALSE, client |-> EmptyClient, msisdn |-> "", idmts |-> ""]

(* What the partner answers: the HTTP outcome and the metadata of the      *)
(* profile; has_* tell whether the metadata carries the key at all.        *)
PartnerAnswers ==
    [mode : {"ok", "status", "raise"},
     has_client_id : BOOLEAN, CLIENT_ID : ExternalIds \cup {None},
     has_msisdn : BOOLEAN, MSISDN : Phones \cup {None}]

(* get_inswitch_client: the requests exception passes through, a status    *)
(* other than 200 gives None, else the JSON body.                          *)
get_inswitch_client(answer) ==
    [raised |-> answer.mode = "raise",
     none |-> answer.mode = "status",
     json |-> [has_client_id |-> answer.has_client_id, CLIENT_ID |-> answer.CLIENT_ID,
               has_msisdn |-> answer.has_msisdn, MSISDN |-> answer.MSISDN]]

(* Lines 552-564: idmts and cell_number out of the profile.  By phone the  *)
(* external id comes from dict.get (None when absent) and cell_number      *)
(* stays str(data); by external id both come from the first metadata entry *)
(* with the key, [0] raising IndexError when there is none and             *)
(* len(cell_number) raising TypeError on None.  "missing" is the early     *)
(* return on a None idmts.                                                 *)
extract_client_inswitch(is_msisdn, cell_number, json) ==
    IF is_msisdn
    THEN LET idmts == IF json.has_client_id THEN json.CLIENT_ID ELSE None
         IN  [raised |-> FALSE, missing |-> idmts = None,
              idmts |-> idmts, cell_number |-> cell_number]
    ELSE IF ~json.has_client_id \/ ~json.has_msisdn \/ json.MSISDN = None
         THEN [raised |-> TRUE, missing |-> FALSE, idmts |-> None, cell_number |-> cell_number]
         ELSE [raised |-> FALSE, missing |-> json.CLIENT_ID = None,
               idmts |-> json.CLIENT_ID, cell_number |-> json.MSISDN]

(* The ClientIDMTS-index query as the store serves it: one page.           *)
ClientIndexTable(stored, idmts, mode) ==
    <<[code |-> IF mode = "status" THEN HTTP_ERROR ELSE HTTP_OK,
       raises |-> mode = "raise",
       Items |-> IF stored.exists /\ stored.row.ClientIDMTS = idmts
                 THEN <<stored.row>> ELSE <<>>]>>

(* find_by_client_by_idmts: None on an exception or on no item, else the   *)
(* first item.                                                             *)
find_by_client_by_idmts(table) ==
    LET response_client_items == get_items_by_query_from_dynamo(table)
    IN  IF response_client_items.raised \/ response_client_items.none
        THEN [none |-> TRUE, row |-> EmptyClient]
        ELSE [none |-> FALSE, row |-> response_client_items.rows[1]]

(* Variant of compare_stored_phone that sends an equal phone on to the     *)
(* update as well.                                                         *)
compare_stored_phone_always_updating(info, client, cell_number, idmts) ==
    IF client.none
    THEN [next |-> "except", info |-> info]
    ELSE LET msisdn == client.row.Msisdn
             info2 == [info EXCEPT !.idmts = idmts]
         IN  IF msisdn = None
             THEN [next |-> "return", info |-> info2]
             ELSE [next |-> "update", info |-> info2]

(* Variant of compare_stored_phone that hands the row back on the way to   *)
(* the update as well.                                                     *)
compare_stored_phone_keeping_client(info, client, cell_number, idmts) ==
    IF client.none
    THEN [next |-> "except", info |-> info]
    ELSE LET msisdn == client.row.Msisdn
             info2 == [info EXCEPT !.idmts = idmts]
         IN  IF msisdn = None
             THEN [next |-> "return", info |-> info2]
             ELSE IF msisdn = cell_number
                  THEN [next |-> "return",
                        info |-> [info2 EXCEPT !.client = client.row, !.success = TRUE]]
                  ELSE [next |-> "update", info |-> [info2 EXCEPT !.client = client.row]]

(* Lines 569-579: client.get on None raises AttributeError before idmts is *)
(* stored; a row without a phone returns; an equal phone returns the row   *)
(* with success True; any other phone goes on to the update.               *)
compare_stored_phone(info, client, cell_number, idmts) ==
    IF client.none
    THEN [next |-> "except", info |-> info]
    ELSE LET msisdn == client.row.Msisdn
             info2 == [info EXCEPT !.idmts = idmts]
         IN  IF msisdn = None
             THEN [next |-> "return", info |-> info2]
             ELSE IF msisdn = cell_number
                  THEN [next |-> "return",
                        info |-> [info2 EXCEPT !.client = client.row, !.success = TRUE]]
                  ELSE [next |-> "update", info |-> info2]

(* Variant of update_item_Client with a condition on the phone read        *)
(* earlier: a row that changed since stays as it is.                       *)
update_item_keeping_newer(stored, msisdn, cell_number) ==
    IF stored.exists /\ stored.row.Msisdn /= msisdn
    THEN stored
    ELSE [exists |-> TRUE, row |-> [stored.row EXCEPT !.Msisdn = cell_number]]

(* Lines 595-601: update_item sets Msisdn by key with no condition         *)
(* expression; the phone read earlier plays no part.                       *)
update_item_Client(stored, msisdn, cell_number) ==
    [exists |-> TRUE, row |-> [stored.row EXCEPT !.Msisdn = cell_number]]

(* Variant of new_row with the two phones in each other's place.           *)
new_row_swapping_phones(id, client, msisdn, cell_number, process) ==
    [Id |-> id, ClientId |-> client.ClientID, OldMsisdn |-> cell_number,
     NewMsisdn |-> msisdn, Process |-> process]

(* Variant of client_write_failed that takes every answer as a success.    *)
client_write_failed_never(resp) == FALSE

(* Line 603: the answer of update_item has no metadata or a status other   *)
(* than 200.                                                               *)
client_write_failed(resp) == ~resp.ResponseMetadata \/ resp.HTTPStatusCode /= HTTP_OK

(* Lines 608-615: the audit row; Id is a fresh uuid4, told apart here by   *)
(* the call that drew it.                                                  *)
new_row(id, client, msisdn, cell_number, process) ==
    [Id |-> id, ClientId |-> client.ClientID, OldMsisdn |-> msisdn,
     NewMsisdn |-> cell_number, Process |-> process]

(* Variant of audit_return that reports the repair whatever put_item       *)
(* answered.                                                               *)
audit_return_ignoring_status(info, resp) ==
    [info EXCEPT !.success = TRUE, !.edited = TRUE]

(* Lines 621-631: success and edited are set only on a 200 answer of       *)
(* put_item; any other answer falls through to the final return.           *)
audit_return(info, resp) ==
    IF resp.ResponseMetadata /\ resp.HTTPStatusCode = HTTP_OK
    THEN [info EXCEPT !.success = TRUE, !.edited = TRUE]
    ELSE info

(* Variant of the try block that leaves the audit append outside it.       *)
try_block_without_audit == {"profile", "find", "update"}

(* Lines 545-628: the steps of compare_client_data inside try/except.      *)
try_block_compare_client_data == {"profile", "find", "update", "audit"}

NoArg == [data |-> "", is_msisdn |-> FALSE, process |-> ""]
NoRead == [none |-> TRUE, row |-> EmptyClient]
ClientStores == {[exists |-> FALSE, row |-> EmptyClient]}
                    \cup {[exists |-> TRUE, row |-> r] : r \in ClientRows}

InitRecon ==
    /\ QueryOff
    /\ AccessOff
    /\ WritesOff
    /\ rpc = [p \in Calls |-> "idle"]
    /\ rarg = [p \in Calls |-> NoArg]
    /\ rcell = [p \in Calls |-> ""]
    /\ ridmts = [p \in Calls |-> ""]
    /\ rread = [p \in Calls |-> NoRead]
    /\ rinfo = [p \in Calls |-> info_response_default]
    /\ rexc = [p \in Calls |-> ""]
    /\ cstore \in ClientStores
    /\ audit = <<>>
    /\ rwrites = <<>>

(* return info_response                                                    *)
Return(p, info) ==
    /\ rpc' = [rpc EXCEPT ![p] = "done"]
    /\ rinfo' = [rinfo EXCEPT ![p] = info]
    /\ UNCHANGED rexc

(* An exception met at step pos: inside the try block the handler returns  *)
(* info_response as it stands, outside it the exception leaves the call.   *)
Except(p, pos, info) ==
    IF pos \in try_block_compare_client_data
    THEN /\ rpc' = [rpc EXCEPT ![p] = "done"]
         /\ rinfo' = [rinfo EXCEPT ![p] = info]
         /\ rexc' = [rexc EXCEPT ![p] = "caught"]
    ELSE /\ rpc' = [rpc EXCEPT ![p] = "raised"]
         /\ rexc' = [rexc EXCEPT ![p] = "escaped"]
         /\ UNCHANGED rinfo

(* Lines 533-543. *)
CompareCall(p) ==
    /\ rpc[p] = "idle"
    /\ \E is_msisdn \in BOOLEAN, process \in Processes :
         \E data \in (IF is_msisdn THEN Phones ELSE ExternalIds) :
            /\ rarg' = [rarg EXCEPT ![p] = [data |-> data, is_msisdn |-> is_msisdn,
                                            process |-> process]]
            /\ rcell' = [rcell EXCEPT ![p] = IF is_msisdn THEN data ELSE ""]
    /\ rinfo' = [rinfo EXCEPT ![p] = info_response_default]
    /\ rpc' = [rpc EXCEPT ![p] = "profile"]
    /\ UNCHANGED <<ridmts, rread, rexc, cstore, audit, rwrites>>
    /\ UNCHANGED nonrecon

(* Lines 546-567: the partner call and the extraction. *)
GetInswitchClient(p) ==
    /\ rpc[p] = "profile"
    /\ \E answer \in PartnerAnswers :
         LET client_inswitch == get_inswitch_client(answer)
             e == extract_client_inswitch(rarg[p].is_msisdn, rcell[p], client_inswitch.json)
         IN  IF client_inswitch.raised
             THEN Except(p, "profile", rinfo[p]) /\ UNCHANGED <<rcell, ridmts>>
             ELSE IF client_inswitch.none
             THEN Return(p, rinfo[p]) /\ UNCHANGED <<rcell, ridmts>>
             ELSE IF e.raised
             THEN Except(p, "profile", rinfo[p]) /\ UNCHANGED <<rcell, ridmts>>
             ELSE IF e.missing
             THEN Return(p, rinfo[p]) /\ UNCHANGED <<rcell, ridmts>>
             ELSE /\ rcell' = [rcell EXCEPT ![p] = e.cell_number]
                  /\ ridmts' = [ridmts EXCEPT ![p] = e.idmts]
                  /\ rinfo' = [rinfo EXCEPT ![p].msisdn = e.cell_number]
                  /\ rpc' = [rpc EXCEPT ![p] = "find"]
                  /\ UNCHANGED rexc
    /\ UNCHANGED <<rarg, rread, cstore, audit, rwrites>>
    /\ UNCHANGED nonrecon

(* Lines 568-579: the read of the Client row and the comparison. *)
FindClient(p) ==
    /\ rpc[p] = "find"
    /\ \E mode \in FetchModes :
         LET client == find_by_client_by_idmts(ClientIndexTable(cstore, ridmts[p], mode))
             d == compare_stored_phone(rinfo[p], client, rcell[p], ridmts[p])
         IN  /\ rread' = [rread EXCEPT ![p] = client]
             /\ IF d.next = "except" THEN Except(p, "find", d.info)
                ELSE IF d.next = "return" THEN Return(p, d.info)
                ELSE /\ rpc' = [rpc EXCEPT ![p] = "update"]
                     /\ rinfo' = [rinfo EXCEPT ![p] = d.info]
                     /\ UNCHANGED rexc
    /\ UNCHANGED <<rarg, rcell, ridmts, cstore, audit, rwrites>>
    /\ UNCHANGED nonrecon

(* Lines 581-604: the overwrite of the stored phone. *)
UpdateClient(p) ==
    /\ rpc[p] = "update"
    /\ \E mode \in WriteModes :
         LET response_update == StoreResponse(mode)
         IN  /\ cstore' = IF mode = "ok"
                          THEN update_item_Client(cstore, rread[p].row.Msisdn, rcell[p])
                          ELSE cstore
             /\ rwrites' = Append(rwrites, [by |-> p, table |-> "Client",
                                            ok |-> mode = "ok", value |-> rcell[p]])
             /\ IF response_update.raises THEN Except(p, "update", rinfo[p])
                ELSE IF client_write_failed(response_update)
                THEN Return(p, rinfo[p])
                ELSE /\ rpc' = [rpc EXCEPT ![p] = "audit"]
                     /\ UNCHANGED <<rinfo, rexc>>
    /\ UNCHANGED <<rarg, rcell, ridmts, rread, audit>>
    /\ UNCHANGED nonrecon

(* Lines 606-631: the audit row and the result. *)
PutAuditRow(p) ==
    /\ rpc[p] = "audit"
    /\ \E mode \in WriteModes :
         LET response_post == StoreResponse(mode)
             row == new_row(p, rread[p].row, rread[p].row.Msisdn, rcell[p], rarg[p].process)
         IN  /\ audit' = IF mode = "ok" THEN Append(audit, row) ELSE audit
             /\ rwrites' = Append(rwrites, [by |-> p, table |-> "UpdatedCustomerAccounts",
                                            ok |-> mode = "ok", value |-> rcell[p]])
             /\ IF response_post.raises THEN Except(p, "audit", rinfo[p])
                ELSE Return(p, audit_return(rinfo[p], response_post))
    /\ UNCHANGED <<rarg, rcell, ridmts, rread, cstore>>
    /\ UNCHANGED nonrecon

NextRecon ==
    \E p \in Calls :
        \/ CompareCall(p)
        \/ GetInswitchClient(p)
        \/ FindClient(p)
        \/ UpdateClient(p)
        \/ PutAuditRow(p)

SpecRecon == InitRecon /\ [][NextRecon]_vars

----------------------------------------------------------------------------
(* Properties of compare_client_data (checked under SpecRecon).            *)
Returned(p) == rpc[p] = "done"
WritesBy(p) == {i \in 1..Len(rwrites) : rwrites[i].by = p}
ClientWritesBy(p) == {i \in WritesBy(p) : rwrites[i].table = "Client" /\ rwrites[i].ok}
AuditAppendsBy(p) ==
    {i \in WritesBy(p) : rwrites[i].table = "UpdatedCustomerAccounts" /\ rwrites[i].ok}
AuditRowsOf(p) == {i \in 1..Len(audit) : audit[i].Id = p}

(* The row found by external id already holds the canonical phone. *)
StoredEqualsCanonical(p) ==
    /\ Returned(p)
    /\ ~rread[p].none
    /\ rread[p].row.Msisdn = rcell[p]

\* C12: when the Client row found by external id holds a Msisdn equal to the
\* canonical phone, compare_client_data returns success true, edited false
\* and client equal to that row, and sends no write to the Client table and
\* no row to UpdatedCustomerAccounts.
C12_NoOpWhenEqual ==
    \A p \in Calls :
        StoredEqualsCanonical(p) =>
            /\ rinfo[p].success = TRUE
            /\ rinfo[p].edited = FALSE
            /\ rinfo[p].client = rread[p].row
            /\ WritesBy(p) = {}
            /\ AuditRowsOf(p) = {}

C12_Witness ==
    \E p \in Calls :
        /\ StoredEqualsCanonical(p)
        /\ rinfo[p].success
        /\ rinfo[p].client.ClientID = "cl-7"
        /\ rinfo[p].msisdn = rcell[p]

ReportedEdited(p) == Returned(p) /\ rinfo[p].success /\ rinfo[p].edited

\* C13: every compare_client_data call that returns success true with edited
\* true has made a successful Client Msisdn write and, after it, exactly one
\* successful audit append whose row carries that client's id, the phone the
\* call read and the canonical phone.
C13_EditedHasAuditRow ==
    \A p \in Calls :
        ReportedEdited(p) =>
            /\ Cardinality(AuditAppendsBy(p)) = 1
            /\ Cardinality(AuditRowsOf(p)) = 1
            /\ \E i \in ClientWritesBy(p) : \A j \in AuditAppendsBy(p) : i < j
            /\ \A k \in AuditRowsOf(p) :
                  /\ audit[k].ClientId = rread[p].row.ClientID
                  /\ audit[k].OldMsisdn = rread[p].row.Msisdn
                  /\ audit[k].NewMsisdn = rcell[p]

C13_Witness ==
    \E p \in Calls :
        /\ ReportedEdited(p)
        /\ AuditRowsOf(p) /= {}
        /\ rread[p].row.Msisdn = "0970000000"
        /\ rcell[p] = "0984807373"

(* Some audit row tells of the overwrite that call p made with rwrites[i]. *)
Audited(p, i) ==
    \E k \in 1..Len(audit) :
        /\ audit[k].ClientId = rread[p].row.ClientID
        /\ audit[k].OldMsisdn = rread[p].row.Msisdn
        /\ audit[k].NewMsisdn = rwrites[i].value

AppliedClientWrites == {i \in 1..Len(rwrites) : rwrites[i].table = "Client" /\ rwrites[i].ok}
LastClientWrite == CHOOSE i \in AppliedClientWrites : \A j \in AppliedClientWrites : j <= i

\* C20: two concurrent compare_client_data calls for one client whose stored
\* Msisdn differs from the canonical phone can both read the stale phone,
\* both overwrite Msisdn with no lock or condition and both append their own
\* audit row; whatever the interleaving, the stored Msisdn is the value of
\* the Client write that executed last, and every successful append of a
\* call is a row of its own in the audit table.
C20_LastWriteWins ==
    /\ AppliedClientWrites /= {} =>
          /\ cstore.exists
          /\ cstore.row.Msisdn = rwrites[LastClientWrite].value
    /\ \A p \in Calls : Cardinality(AuditRowsOf(p)) = Cardinality(AuditAppendsBy(p))
    /\ Len(audit) = Cardinality(UNION {AuditRowsOf(p) : p \in Calls})

C20_Witness ==
    /\ \A p \in Calls : ReportedEdited(p)
    /\ Len(audit) = 2
    /\ audit[1].Id /= audit[2].Id
    /\ audit[1].OldMsisdn = "0970000000"
    /\ audit[2].OldMsisdn = "0970000000"
    /\ audit[1].ClientId = audit[2].ClientId
    /\ audit[1].NewMsisdn /= audit[2].NewMsisdn
    /\ Cardinality(AppliedClientWrites) = 2
    /\ rwrites[LastClientWrite].by = audit[1].Id
    /\ cstore.row.Msisdn = audit[1].NewMsisdn

FailedClientWritesBy(p) == {i \in WritesBy(p) : rwrites[i].table = "Client" /\ ~rwrites[i].ok}
AuditAttemptsBy(p) == {i \in WritesBy(p) : rwrites[i].table = "UpdatedCustomerAccounts"}

\* C25: when the Client Msisdn write answers with a status other than 200 or
\* raises, compare_client_data returns success false and edited false and
\* attempts no audit write, so no audit row is appended; an audit append is
\* only ever attempted after a successful Client write of the same call.
C25_NoAuditAfterFailedWrite ==
    \A p \in Calls :
        /\ \A j \in AuditAttemptsBy(p) : \E i \in ClientWritesBy(p) : i < j
        /\ (Returned(p) /\ FailedClientWritesBy(p) /= {}) =>
              /\ rinfo[p].success = FALSE
              /\ rinfo[p].edited = FALSE
              /\ AuditAttemptsBy(p) = {}
              /\ AuditRowsOf(p) = {}

C25_Witness ==
    \E p \in Calls :
        /\ Returned(p)
        /\ FailedClientWritesBy(p) /= {}
        /\ rexc[p] = ""
        /\ AuditAttemptsBy(p) = {}
        /\ rinfo[p].success = FALSE

(* The call got as far as the read of the Client row: line 566 has stored  *)
(* the canonical phone.                                                    *)
ClientLookedUp(p) == Returned(p) /\ rinfo[p].msisdn /= ""
ClientNotFound(p) == ClientLookedUp(p) /\ rread[p].none
StoredPhoneNull(p) == ClientLookedUp(p) /\ ~rread[p].none /\ rread[p].row.Msisdn = None

\* C26: when the profile is found and the Client row is not found by
\* external id, or is found with a null stored phone, compare_client_data
\* returns the same partial result: success false, edited false, client {},
\* msisdn the canonical phone and idmts the canonical external id; it
\* performs no write.
C26_SamePartialResult ==
    \A p \in Calls :
        (ClientNotFound(p) \/ StoredPhoneNull(p)) =>
            /\ rinfo[p].success = FALSE
            /\ rinfo[p].edited = FALSE
            /\ rinfo[p].client = EmptyClient
            /\ rinfo[p].msisdn = rcell[p]
            /\ rinfo[p].idmts = ridmts[p]
            /\ WritesBy(p) = {}

\* C29: on the repair path of compare_client_data (success true, edited
\* true) the returned client is the empty mapping; client holds the Client
\* row only on the no-op path (success true, edited false) and is {} on
\* every other path.
C29_ClientOnlyOnNoOp ==
    \A p \in Calls :
        Returned(p) =>
            /\ ReportedEdited(p) => rinfo[p].client = EmptyClient
            /\ (rinfo[p].client /= EmptyClient) = (rinfo[p].success /\ ~rinfo[p].edited)
            /\ rinfo[p].client /= EmptyClient => rinfo[p].client = rread[p].row

C29_Witness ==
    \E p \in Calls :
        /\ ReportedEdited(p)
        /\ rinfo[p].client = EmptyClient
        /\ ~rread[p].none
        /\ cstore.row.ClientID = "cl-7"
        /\ AuditRowsOf(p) /= {}

----------------------------------------------------------------------------
(* validate_access and compare_client_data as their callers see them: a    *)
(* behaviour is one call of validate_access or two calls of                *)
(* compare_client_data.                                                    *)
InitCalls == InitAccess \/ InitRecon

NextCalls == NextAccess \/ NextRecon

SpecCalls == InitCalls /\ [][NextCalls]_vars

ResolverFields == {"success", "error", "status_preapproved", "flow", "current_loan",
                   "status_app", "total_loans", "access", "is_recurrent"}
ReconcilerFields == {"success", "edited", "client", "msisdn", "idmts"}

\* C15: neither validate_access nor compare_client_data lets an exception
\* reach its caller: whatever store or partner call fails or raises, at
\* whatever step, the call returns a result that carries all of its
\* contract fields.
C15_NoExceptionEscapes ==
    /\ pc /= "raised"
    /\ exc /= "escaped"
    /\ pc = "done" => DOMAIN response = ResolverFields
    /\ \A p \in Calls :
          /\ rpc[p] /= "raised"
          /\ rpc[p] = "done" => (rexc[p] /= "escaped" /\ DOMAIN rinfo[p] = ReconcilerFields)

C15_Witness ==
    /\ pc = "done"
    /\ exc = "caught"
    /\ calls /= <<>>
    /\ DOMAIN response = ResolverFields
    /\ response.success = FALSE

====
